---- MODULE Spec2Model ----
(***************************************************************************)
(* tinyWAL (src/wal.go): a segmented write-ahead log.  The model keeps the *)
(* log directory, the files' bytes, the engine's handle and lock, and the  *)
(* position of every goroutine inside Write / Sync / Close.                *)
(***************************************************************************)
EXTENDS Integers, Sequences, FiniteSets, TLC

(***************************************************************************)
(* Bounds of the model.                                                    *)
(***************************************************************************)
MaxWrites == 4
MaxTicks == 2
MaxSyncs == 1
MaxM == 2
MaxWritesF == 3
MaxTicksF == 1
MaxFaults == 1
MaxWritesC == 2
MaxTicksC == 1
MaxSyncsC == 1
MaxWritesL == 1
MaxFaultsL == 1
MaxSyncsL == 1
MaxWritesN == 2
MaxTicksN == 1
MaxFaultsN == 1
MaxForeign == 1

SegmentSizes == {16, 33}
SegmentSizesC == {16}
Payloads == {<< >>, <<97>>}
PayloadsC == {<<97>>}

(***************************************************************************)
(* Strings are sequences of one-character strings.                         *)
(***************************************************************************)
Digits == <<"0", "1", "2", "3", "4", "5", "6", "7", "8", "9">>

filePrefix == <<"s", "e", "g", "m", "e", "n", "t", "-">>

RECURSIVE FormatNat(_)
FormatNat(n) ==
    IF n < 10 THEN <<Digits[n + 1]>>
    ELSE FormatNat(n \div 10) \o <<Digits[(n % 10) + 1]>>

\* strconv.FormatInt(n, 10)
FormatInt(n) == IF n < 0 THEN <<"-">> \o FormatNat(-n) ELSE FormatNat(n)

\* strings.HasPrefix(s, p)
HasPrefix(s, p) == Len(s) >= Len(p) /\ SubSeq(s, 1, Len(p)) = p

\* strings.ReplaceAll(s, old, ""): every non-overlapping occurrence of old,
\* scanning left to right, is removed.
RECURSIVE ReplaceAll(_, _)
ReplaceAll(s, old) ==
    IF s = << >> THEN << >>
    ELSE IF HasPrefix(s, old) THEN ReplaceAll(SubSeq(s, Len(old) + 1, Len(s)), old)
    ELSE <<Head(s)>> \o ReplaceAll(Tail(s), old)

IsDigit(c) == \E i \in 1..10 : Digits[i] = c
DigitVal(c) == (CHOOSE i \in 1..10 : Digits[i] = c) - 1

RECURSIVE ParseDigits(_, _)
ParseDigits(s, acc) ==
    IF s = << >> THEN acc
    ELSE ParseDigits(Tail(s), acc * 10 + DigitVal(Head(s)))

\* strconv.ParseInt(s, 10, 64): an optional sign followed by at least one
\* digit; anything else is a syntax error.
ParseIntBody(s) ==
    IF s # << >> /\ Head(s) \in {"-", "+"} THEN Tail(s) ELSE s
ParseIntOk(s) ==
    /\ ParseIntBody(s) # << >>
    /\ \A i \in 1..Len(ParseIntBody(s)) : IsDigit(ParseIntBody(s)[i])
ParseInt(s) ==
    IF s # << >> /\ Head(s) = "-"
    THEN -ParseDigits(ParseIntBody(s), 0)
    ELSE ParseDigits(ParseIntBody(s), 0)

\* The file name createNewLogFile builds for a clock value (without logDir).
SegmentName(timestamp) == filePrefix \o <<"-">> \o FormatInt(timestamp)

(***************************************************************************)
(* Byte order of file names, as os.ReadDir sorts its entries.              *)
(***************************************************************************)
CharCode(c) ==
    IF c = "-" THEN 45
    ELSE IF c = "+" THEN 43
    ELSE IF IsDigit(c) THEN 48 + DigitVal(c)
    ELSE IF c = "e" THEN 101
    ELSE IF c = "g" THEN 103
    ELSE IF c = "m" THEN 109
    ELSE IF c = "n" THEN 110
    ELSE IF c = "s" THEN 115
    ELSE IF c = "t" THEN 116
    ELSE 120

RECURSIVE StrLess(_, _)
StrLess(a, b) ==
    IF b = << >> THEN FALSE
    ELSE IF a = << >> THEN TRUE
    ELSE IF CharCode(Head(a)) # CharCode(Head(b))
         THEN CharCode(Head(a)) < CharCode(Head(b))
    ELSE StrLess(Tail(a), Tail(b))

(***************************************************************************)
(* Fixed-width unsigned integers are sequences of bits, least significant  *)
(* bit first.                                                              *)
(***************************************************************************)
RECURSIVE ToBits(_, _)
ToBits(n, w) == IF w = 0 THEN << >> ELSE <<n % 2>> \o ToBits(n \div 2, w - 1)

RECURSIVE FromBits(_)
FromBits(b) == IF b = << >> THEN 0 ELSE Head(b) + 2 * FromBits(Tail(b))

RECURSIVE Xor(_, _)
Xor(a, b) ==
    IF a = << >> THEN << >>
    ELSE <<(Head(a) + Head(b)) % 2>> \o Xor(Tail(a), Tail(b))

RECURSIVE Not(_)
Not(a) == IF a = << >> THEN << >> ELSE <<1 - Head(a)>> \o Not(Tail(a))

\* a >> k on a bit vector of fixed width
Shr(a, k) == SubSeq(a, k + 1, Len(a)) \o ToBits(0, k)

\* binary.LittleEndian.PutUint32 / PutUint64: the bytes of a bit vector,
\* low byte first.
RECURSIVE PutUint(_)
PutUint(b) ==
    IF b = << >> THEN << >>
    ELSE <<FromBits(SubSeq(b, 1, 8))>> \o PutUint(SubSeq(b, 9, Len(b)))

\* binary.LittleEndian.Uint32 / Uint64: the bit vector of a byte sequence.
RECURSIVE GetUint(_)
GetUint(bytes) ==
    IF bytes = << >> THEN << >>
    ELSE ToBits(Head(bytes), 8) \o GetUint(Tail(bytes))

(***************************************************************************)
(* crc32.ChecksumIEEE: the reflected CRC-32 with polynomial 0xedb88320,    *)
(* table driven as in hash/crc32 (simpleMakeTable / simpleUpdate).         *)
(***************************************************************************)
IEEE == ToBits(33568, 16) \o ToBits(60856, 16)

RECURSIVE CrcShift(_, _)
CrcShift(crc, k) ==
    IF k = 0 THEN crc
    ELSE CrcShift(IF crc[1] = 1 THEN Xor(Shr(crc, 1), IEEE) ELSE Shr(crc, 1), k - 1)

IEEETable == [i \in 0..255 |-> CrcShift(ToBits(i, 32), 8)]

RECURSIVE CrcUpdate(_, _)
CrcUpdate(crc, p) ==
    IF p = << >> THEN crc
    ELSE CrcUpdate(Xor(IEEETable[FromBits(Xor(SubSeq(crc, 1, 8), ToBits(Head(p), 8)))],
                       Shr(crc, 8)),
                   Tail(p))

ChecksumIEEE(p) == Not(CrcUpdate(Not(ToBits(0, 32)), p))

(***************************************************************************)
(* The record as Write lays it out (src/wal.go:82-110): offset, length,    *)
(* payload, checksum -- four separate writes to the file.                  *)
(***************************************************************************)
\* binary.LittleEndian.PutUint32 / PutUint64 of a number: n bytes, byte i
\* being v >> 8i.
RECURSIVE PutUintN(_, _)
PutUintN(v, n) ==
    IF n = 0 THEN << >> ELSE <<v % 256>> \o PutUintN(v \div 256, n - 1)

\* The checksum bytes of the payloads the callers write, computed once.
ChecksumTable ==
    {<<p, PutUint(ChecksumIEEE(p))>> : p \in Payloads \cup PayloadsC}

offsetBytes(offset) == PutUintN(offset, 8)
lenBytes(p) == PutUintN(Len(p), 4)
checksumBytes(p) ==
    IF \E c \in ChecksumTable : c[1] = p
    THEN (CHOOSE c \in ChecksumTable : c[1] = p)[2]
    ELSE PutUint(ChecksumIEEE(p))

(***************************************************************************)
(* Directory listing and retention helpers.                                *)
(***************************************************************************)
MinName(S) == CHOOSE n \in S : \A m \in S \ {n} : StrLess(n, m)

\* os.ReadDir: the entries sorted by file name.  The directory holds no
\* sub-directories, so getAllSegments keeps every entry.
RECURSIVE ReadDir(_)
ReadDir(S) ==
    IF S = {} THEN << >> ELSE <<MinName(S)>> \o ReadDir(S \ {MinName(S)})

\* getSegmentInfos: names without the prefix are skipped; a name with the
\* prefix whose remainder does not parse is an error.
getSegmentInfosOk(segments) ==
    \A i \in 1..Len(segments) :
        HasPrefix(segments[i], filePrefix) =>
            ParseIntOk(ReplaceAll(segments[i], filePrefix))

RECURSIVE getSegmentInfos(_)
getSegmentInfos(segments) ==
    IF segments = << >> THEN << >>
    ELSE IF ~HasPrefix(Head(segments), filePrefix)
         THEN getSegmentInfos(Tail(segments))
    ELSE <<[Name |-> Head(segments),
            Timestamp |-> ParseInt(ReplaceAll(Head(segments), filePrefix))]>>
         \o getSegmentInfos(Tail(segments))

\* sort.SliceStable by Timestamp, ascending: a stable insertion sort.
RECURSIVE InsertStable(_, _)
InsertStable(sorted, x) ==
    IF sorted = << >> THEN <<x>>
    ELSE IF x.Timestamp < Head(sorted).Timestamp THEN <<x>> \o sorted
    ELSE <<Head(sorted)>> \o InsertStable(Tail(sorted), x)

RECURSIVE SliceStable(_)
SliceStable(infos) ==
    IF infos = << >> THEN << >>
    ELSE InsertStable(SliceStable(SubSeq(infos, 1, Len(infos) - 1)),
                      infos[Len(infos)])

\* The loop of deleteOldSegments: the names it removes, in order, when every
\* os.Remove succeeds.
RECURSIVE RemoveLoop(_, _, _)
RemoveLoop(sorted, count, max) ==
    IF sorted = << >> \/ count < max THEN << >>
    ELSE <<Head(sorted).Name>> \o RemoveLoop(Tail(sorted), count - 1, max)

deleteOldSegments(segments, max) ==
    RemoveLoop(SliceStable(getSegmentInfos(segments)), Len(segments), max)

Range(f) == {f[i] : i \in DOMAIN f}

(***************************************************************************)
(* State.                                                                  *)
(***************************************************************************)
Writers == {"w1", "w2"}
Bg == "bg"
Threads == Writers \cup {Bg}
NoThread == "none"
nil == "nil"

VARIABLES
    clock,        \* time.Now().Unix()
    dir,          \* the log directory: file name -> inode
    content,      \* inode -> bytes of the file
    synced,       \* inode -> number of leading bytes a Sync has made durable
    handles,      \* the *os.File values opened so far (none is ever closed): handle -> inode
    currentLog,   \* w.currentLog, a handle
    maxSegments,  \* w.maxSegments
    segmentSize,  \* w.segmentSize
    lock,         \* holder of w.lock
    pc,           \* where each goroutine is
    data,         \* Write's argument
    files,        \* rotateLogIfSizeExceeds' files
    offset,       \* Write's offset
    err,          \* the error the call in progress is about to return
    failed,       \* first filesystem operation that failed in the call
    callId,       \* number of the goroutine's Write call
    hist,         \* the Write calls that returned, in order of return
    trace,        \* inode -> field writes it received, in order
    budget,       \* calls, clock ticks and failures the run may still make
    logDirExists  \* whether the directory config.LogDir exists

vars == <<clock, dir, content, synced, handles, currentLog, maxSegments,
          segmentSize, lock, pc, data, files, offset, err, failed, callId,
          hist, trace, budget, logDirExists>>

config == <<maxSegments, segmentSize>>
fs == <<dir, content, synced, handles, currentLog, trace>>
locals == <<data, files, offset>>

\* The inode behind w.currentLog.
CurIno == handles[currentLog]

\* A filesystem call is allowed to fail while the fault budget lasts.
Spend(k) == budget[k] > 0 /\ budget' = [budget EXCEPT ![k] = @ - 1]
Fault == Spend("faults")
NoFault == budget' = budget

\* createNewLogFile as it would be with O_TRUNC: an existing file is emptied.
createNewLogFile_Truncate ==
    LET name == SegmentName(clock) IN
    IF name \in DOMAIN dir
    THEN /\ handles' = Append(handles, dir[name])
         /\ currentLog' = Len(handles) + 1
         /\ content' = [content EXCEPT ![dir[name]] = << >>]
         /\ synced' = [synced EXCEPT ![dir[name]] = 0]
         /\ UNCHANGED <<dir, trace>>
    ELSE /\ content' = Append(content, << >>)
         /\ synced' = Append(synced, 0)
         /\ trace' = Append(trace, << >>)
         /\ dir' = [n \in DOMAIN dir \cup {name} |->
                       IF n = name THEN Len(content) + 1 ELSE dir[n]]
         /\ handles' = Append(handles, Len(content) + 1)
         /\ currentLog' = Len(handles) + 1

\* createNewLogFile as it would be if it removed an existing file of the
\* name before creating it.
createNewLogFile_Replace ==
    LET name == SegmentName(clock) IN
    /\ content' = Append(content, << >>)
    /\ synced' = Append(synced, 0)
    /\ trace' = Append(trace, << >>)
    /\ dir' = [n \in DOMAIN dir \cup {name} |->
                  IF n = name THEN Len(content) + 1 ELSE dir[n]]
    /\ handles' = Append(handles, Len(content) + 1)
    /\ currentLog' = Len(handles) + 1

\* createNewLogFile with a successful os.OpenFile(O_RDWR|O_CREATE|O_APPEND):
\* an existing name is reopened, a missing one gets a new empty file.
createNewLogFile ==
    LET name == SegmentName(clock) IN
    IF name \in DOMAIN dir
    THEN /\ handles' = Append(handles, dir[name])
         /\ currentLog' = Len(handles) + 1
         /\ UNCHANGED <<dir, content, synced, trace>>
    ELSE /\ content' = Append(content, << >>)
         /\ synced' = Append(synced, 0)
         /\ trace' = Append(trace, << >>)
         /\ dir' = [n \in DOMAIN dir \cup {name} |->
                       IF n = name THEN Len(content) + 1 ELSE dir[n]]
         /\ handles' = Append(handles, Len(content) + 1)
         /\ currentLog' = Len(handles) + 1

\* New (src/wal.go:41-58) has succeeded: the directory was created empty, the
\* first segment exists and the background syncer is running.
Budget(writes, ticks, faults, syncs, foreign) ==
    [writes |-> writes, ticks |-> ticks, faults |-> faults, syncs |-> syncs,
     foreign |-> foreign]

Start(writes, ticks, faults, syncs, maxima, sizes) ==
    /\ clock = 1
    /\ logDirExists = TRUE
    /\ dir = [n \in {SegmentName(1)} |-> 1]
    /\ content = << << >> >>
    /\ synced = <<0>>
    /\ trace = << << >> >>
    /\ handles = <<1>>
    /\ currentLog = 1
    /\ maxSegments \in maxima
    /\ segmentSize \in sizes
    /\ lock = NoThread
    /\ pc = [t \in Threads |-> IF t = Bg THEN "wait" ELSE "idle"]
    /\ data = [t \in Writers |-> << >>]
    /\ files = [t \in Writers |-> << >>]
    /\ offset = [t \in Writers |-> 0]
    /\ err = [t \in Threads |-> nil]
    /\ failed = [t \in Threads |-> nil]
    /\ callId = [t \in Writers |-> 0]
    /\ hist = << >>
    /\ budget = Budget(writes, ticks, faults, syncs, 0)

Init == Start(MaxWrites, MaxTicks, 0, MaxSyncs, 1..MaxM, SegmentSizes)
InitF == Start(MaxWritesF, MaxTicksF, MaxFaults, 0, 1..MaxM, SegmentSizes)
InitC == Start(MaxWritesC, MaxTicksC, 0, MaxSyncsC, {MaxM}, SegmentSizesC)
InitL == Start(MaxWritesL, 0, MaxFaultsL, MaxSyncsL, {MaxM}, SegmentSizesC)

\* The clock as it would be if it could be set back.
Tick_Backwards ==
    /\ Spend("ticks")
    /\ clock' = IF clock > 1 THEN clock - 1 ELSE clock + 1
    /\ UNCHANGED <<fs, config, logDirExists, lock, pc, locals, err, failed, callId, hist>>

\* time passes
Tick ==
    /\ Spend("ticks")
    /\ clock' = clock + 1
    /\ UNCHANGED <<fs, config, logDirExists, lock, pc, locals, err, failed, callId, hist>>

(***************************************************************************)
(* Write (src/wal.go:71-112), one step per filesystem call.                *)
(***************************************************************************)
WriteCall(t, d) ==
    /\ pc[t] = "idle"
    /\ Spend("writes")
    /\ callId' = [callId EXCEPT ![t] = budget.writes]
    /\ data' = [data EXCEPT ![t] = d]
    /\ err' = [err EXCEPT ![t] = nil]
    /\ failed' = [failed EXCEPT ![t] = nil]
    /\ pc' = [pc EXCEPT ![t] = "lock"]
    /\ UNCHANGED <<clock, fs, config, logDirExists, lock, files, offset, hist>>

\* Write as it would be without waiting for the lock.
WriteLock_NoWait(t) ==
    /\ pc[t] = "lock"
    /\ lock' = t
    /\ pc' = [pc EXCEPT ![t] = "getAllSegments"]
    /\ UNCHANGED <<clock, fs, config, logDirExists, locals, err, failed, callId, hist,
                   budget>>

\* w.lock.Lock()
WriteLock(t) ==
    /\ pc[t] = "lock"
    /\ lock = NoThread
    /\ lock' = t
    /\ pc' = [pc EXCEPT ![t] = "getAllSegments"]
    /\ UNCHANGED <<clock, fs, config, logDirExists, locals, err, failed, callId, hist, budget>>

\* files, err := w.getAllSegments()
GetAllSegments(t) ==
    /\ pc[t] = "getAllSegments"
    /\ \/ /\ NoFault
          /\ files' = [files EXCEPT ![t] = ReadDir(DOMAIN dir)]
          /\ pc' = [pc EXCEPT ![t] = "processOldSegments"]
          /\ UNCHANGED <<err, failed>>
       \/ /\ Fault
          /\ err' = [err EXCEPT ![t] = "ReadDir"]
          /\ failed' = [failed EXCEPT ![t] = "ReadDir"]
          /\ pc' = [pc EXCEPT ![t] = "return"]
          /\ UNCHANGED files
    /\ UNCHANGED <<clock, fs, config, logDirExists, lock, data, offset, callId, hist>>

\* processOldSegments as it would be if the error of a failed os.Remove
\* were dropped and the Write went on.
ProcessOldSegments_DropRemoveErr(t) ==
    /\ pc[t] = "processOldSegments"
    /\ IF Len(files[t]) < maxSegments
       THEN /\ pc' = [pc EXCEPT ![t] = "stat"]
            /\ UNCHANGED <<dir, err, failed, budget>>
       ELSE IF ~getSegmentInfosOk(files[t])
       THEN /\ err' = [err EXCEPT ![t] = "ParseInt"]
            /\ pc' = [pc EXCEPT ![t] = "return"]
            /\ UNCHANGED <<dir, failed, budget>>
       ELSE LET victims == deleteOldSegments(files[t], maxSegments) IN
            \/ /\ NoFault
               /\ dir' = [n \in DOMAIN dir \ Range(victims) |-> dir[n]]
               /\ pc' = [pc EXCEPT ![t] = "stat"]
               /\ UNCHANGED <<err, failed>>
            \/ \E k \in 1..Len(victims) :
               /\ Fault
               /\ dir' = [n \in DOMAIN dir \ Range(SubSeq(victims, 1, k - 1))
                            |-> dir[n]]
               /\ failed' = [failed EXCEPT ![t] = "Remove"]
               /\ pc' = [pc EXCEPT ![t] = "stat"]
               /\ UNCHANGED err
    /\ UNCHANGED <<clock, content, synced, handles, currentLog, trace, config, logDirExists,
                   lock, locals, callId, hist>>

\* err = w.processOldSegments(files): below maxSegments nothing happens;
\* otherwise the names of deleteOldSegments are removed one by one, and the
\* first os.Remove that fails ends the call.
ProcessOldSegments(t) ==
    /\ pc[t] = "processOldSegments"
    /\ IF Len(files[t]) < maxSegments
       THEN /\ pc' = [pc EXCEPT ![t] = "stat"]
            /\ UNCHANGED <<dir, err, failed, budget>>
       ELSE IF ~getSegmentInfosOk(files[t])
       THEN /\ err' = [err EXCEPT ![t] = "ParseInt"]
            /\ pc' = [pc EXCEPT ![t] = "return"]
            /\ UNCHANGED <<dir, failed, budget>>
       ELSE LET victims == deleteOldSegments(files[t], maxSegments) IN
            \/ /\ NoFault
               /\ dir' = [n \in DOMAIN dir \ Range(victims) |-> dir[n]]
               /\ pc' = [pc EXCEPT ![t] = "stat"]
               /\ UNCHANGED <<err, failed>>
            \/ \E k \in 1..Len(victims) :
               /\ Fault
               /\ dir' = [n \in DOMAIN dir \ Range(SubSeq(victims, 1, k - 1))
                            |-> dir[n]]
               /\ err' = [err EXCEPT ![t] = "Remove"]
               /\ failed' = [failed EXCEPT ![t] = "Remove"]
               /\ pc' = [pc EXCEPT ![t] = "return"]
    /\ UNCHANGED <<clock, content, synced, handles, currentLog, trace, config, logDirExists,
                   lock, locals, callId, hist>>

\* The rest of rotateLogIfSizeExceeds (src/wal.go:123-131): Stat, and when
\* the size exceeds segmentSize a createNewLogFile whose error is dropped.
RotateLog(t) ==
    /\ pc[t] = "stat"
    /\ \/ /\ NoFault
          /\ Len(content[CurIno]) > segmentSize
          /\ createNewLogFile
          /\ pc' = [pc EXCEPT ![t] = "seek"]
          /\ UNCHANGED <<err, failed>>
       \/ /\ NoFault
          /\ ~(Len(content[CurIno]) > segmentSize)
          /\ pc' = [pc EXCEPT ![t] = "seek"]
          /\ UNCHANGED <<fs, err, failed>>
       \/ /\ Fault
          /\ Len(content[CurIno]) > segmentSize
          /\ failed' = [failed EXCEPT ![t] = "OpenFile"]
          /\ pc' = [pc EXCEPT ![t] = "seek"]
          /\ UNCHANGED <<fs, err>>
       \/ /\ Fault
          /\ err' = [err EXCEPT ![t] = "Stat"]
          /\ failed' = [failed EXCEPT ![t] = "Stat"]
          /\ pc' = [pc EXCEPT ![t] = "return"]
          /\ UNCHANGED fs
    /\ UNCHANGED <<clock, config, logDirExists, lock, locals, callId, hist>>

\* offset, err := w.currentLog.Seek(0, io.SeekEnd)
Seek(t) ==
    /\ pc[t] = "seek"
    /\ \/ /\ NoFault
          /\ offset' = [offset EXCEPT ![t] = Len(content[CurIno])]
          /\ pc' = [pc EXCEPT ![t] = "writeOffset"]
          /\ UNCHANGED <<err, failed>>
       \/ /\ Fault
          /\ err' = [err EXCEPT ![t] = "Seek"]
          /\ failed' = [failed EXCEPT ![t] = IF failed[t] = nil THEN "Seek" ELSE failed[t]]
          /\ pc' = [pc EXCEPT ![t] = "return"]
          /\ UNCHANGED offset
    /\ UNCHANGED <<clock, fs, config, logDirExists, lock, data, files, callId, hist>>

\* One w.currentLog.Write(bytes): the file is open with O_APPEND, so the
\* bytes go to its end.
FieldWrite(t, at, field, bytes, next) ==
    /\ pc[t] = at
    /\ \/ /\ NoFault
          /\ content' = [content EXCEPT ![CurIno] = @ \o bytes]
          /\ trace' = [trace EXCEPT ![CurIno] = Append(@, <<callId[t], field>>)]
          /\ pc' = [pc EXCEPT ![t] = next]
          /\ UNCHANGED <<err, failed>>
       \/ /\ Fault
          /\ err' = [err EXCEPT ![t] = "Write"]
          /\ failed' = [failed EXCEPT ![t] = IF failed[t] = nil THEN "Write" ELSE failed[t]]
          /\ pc' = [pc EXCEPT ![t] = "return"]
          /\ UNCHANGED <<content, trace>>
    /\ UNCHANGED <<clock, dir, synced, handles, currentLog, config, logDirExists, lock,
                   locals, callId, hist>>

WriteOffset(t) ==
    FieldWrite(t, "writeOffset", "offset", offsetBytes(offset[t]), "writeLen")
WriteLen(t) ==
    FieldWrite(t, "writeLen", "len", lenBytes(data[t]), "writeData")
WriteData(t) ==
    FieldWrite(t, "writeData", "data", data[t], "writeChecksum")
WriteChecksum(t) ==
    FieldWrite(t, "writeChecksum", "checksum", checksumBytes(data[t]), "return")

\* Write as it would be with an Unlock on the successful return only.
WriteReturn_KeepLockOnError(t) ==
    /\ pc[t] = "return"
    /\ lock' = IF err[t] = nil THEN NoThread ELSE lock
    /\ hist' = Append(hist, [id |-> callId[t], ino |-> CurIno,
                             offset |-> offset[t], data |-> data[t],
                             err |-> err[t]])
    /\ pc' = [pc EXCEPT ![t] = "idle"]
    /\ data' = [data EXCEPT ![t] = << >>]
    /\ files' = [files EXCEPT ![t] = << >>]
    /\ offset' = [offset EXCEPT ![t] = 0]
    /\ err' = [err EXCEPT ![t] = nil]
    /\ failed' = [failed EXCEPT ![t] = nil]
    /\ UNCHANGED <<clock, fs, config, logDirExists, callId, budget>>

\* defer w.lock.Unlock() and the return of Write
WriteReturn(t) ==
    /\ pc[t] = "return"
    /\ lock' = NoThread
    /\ hist' = Append(hist, [id |-> callId[t], ino |-> CurIno,
                             offset |-> offset[t], data |-> data[t],
                             err |-> err[t]])
    /\ pc' = [pc EXCEPT ![t] = "idle"]
    /\ data' = [data EXCEPT ![t] = << >>]
    /\ files' = [files EXCEPT ![t] = << >>]
    /\ offset' = [offset EXCEPT ![t] = 0]
    /\ err' = [err EXCEPT ![t] = nil]
    /\ failed' = [failed EXCEPT ![t] = nil]
    /\ UNCHANGED <<clock, fs, config, logDirExists, callId, budget>>

(***************************************************************************)
(* Sync, Close and the background syncer (src/wal.go:134-156).             *)
(***************************************************************************)
\* w.currentLog.Sync(): everything written to the file so far is durable.
FileSync(t, next) ==
    /\ \/ /\ NoFault
          /\ synced' = [synced EXCEPT ![CurIno] = Len(content[CurIno])]
          /\ err' = [err EXCEPT ![t] = nil]
          /\ failed' = [failed EXCEPT ![t] = nil]
       \/ /\ Fault
          /\ err' = [err EXCEPT ![t] = "Sync"]
          /\ failed' = [failed EXCEPT ![t] = "Sync"]
          /\ UNCHANGED synced
    /\ pc' = [pc EXCEPT ![t] = next]

\* A caller enters the public Sync: no lock is taken.
SyncCall(t) ==
    /\ pc[t] = "idle"
    /\ Spend("syncs")
    /\ pc' = [pc EXCEPT ![t] = "sync"]
    /\ UNCHANGED <<clock, fs, config, logDirExists, lock, locals, err, failed, callId, hist>>

Sync(t) ==
    /\ pc[t] = "sync"
    /\ FileSync(t, "idle")
    /\ UNCHANGED <<clock, dir, content, handles, currentLog, trace, config, logDirExists,
                   lock, locals, callId, hist>>

CloseCall(t) ==
    /\ pc[t] = "idle"
    /\ Spend("syncs")
    /\ pc' = [pc EXCEPT ![t] = "closeLock"]
    /\ UNCHANGED <<clock, fs, config, logDirExists, lock, locals, err, failed, callId, hist>>

CloseLock(t) ==
    /\ pc[t] = "closeLock"
    /\ lock = NoThread
    /\ lock' = t
    /\ pc' = [pc EXCEPT ![t] = "closeSync"]
    /\ UNCHANGED <<clock, fs, config, logDirExists, locals, err, failed, callId, hist, budget>>

CloseSync(t) ==
    /\ pc[t] = "closeSync"
    /\ FileSync(t, "closeReturn")
    /\ UNCHANGED <<clock, dir, content, handles, currentLog, trace, config, logDirExists,
                   lock, locals, callId, hist>>

CloseReturn(t) ==
    /\ pc[t] = "closeReturn"
    /\ lock' = NoThread
    /\ pc' = [pc EXCEPT ![t] = "idle"]
    /\ UNCHANGED <<clock, fs, config, logDirExists, locals, err, failed, callId, hist, budget>>

\* case <-w.syncTimeTicker.C
BgTick ==
    /\ pc[Bg] = "wait"
    /\ pc' = [pc EXCEPT ![Bg] = "bgLock"]
    /\ UNCHANGED <<clock, fs, config, logDirExists, lock, locals, err, failed, callId, hist,
                   budget>>

BgLock ==
    /\ pc[Bg] = "bgLock"
    /\ lock = NoThread
    /\ lock' = Bg
    /\ pc' = [pc EXCEPT ![Bg] = "bgSync"]
    /\ UNCHANGED <<clock, fs, config, logDirExists, locals, err, failed, callId, hist, budget>>

BgSync ==
    /\ pc[Bg] = "bgSync"
    /\ FileSync(Bg, "bgUnlock")
    /\ UNCHANGED <<clock, dir, content, handles, currentLog, trace, config, logDirExists,
                   lock, locals, callId, hist>>

\* w.lock.Unlock(); the error, if any, is only logged
BgUnlock ==
    /\ pc[Bg] = "bgUnlock"
    /\ lock' = NoThread
    /\ pc' = [pc EXCEPT ![Bg] = "wait"]
    /\ UNCHANGED <<clock, fs, config, logDirExists, locals, err, failed, callId, hist, budget>>

(***************************************************************************)
(* New (src/wal.go:41-58) and what other programs do to the directory.     *)
(***************************************************************************)
\* Names that are not segment names: one without the prefix, and one with
\* the prefix and a suffix that is not a number.
ForeignNames == {<<"x">>, filePrefix \o <<"x">>}

\* Before New: no engine, no handle; the directory is there or not.
InitN ==
    /\ clock = 1
    /\ logDirExists \in BOOLEAN
    /\ dir = << >>
    /\ content = << >>
    /\ synced = << >>
    /\ trace = << >>
    /\ handles = << >>
    /\ currentLog = 0
    /\ maxSegments \in 1..MaxM
    /\ segmentSize \in SegmentSizesC
    /\ lock = NoThread
    /\ pc = [t \in Threads |-> IF t = Bg THEN "off" ELSE "new"]
    /\ data = [t \in Writers |-> << >>]
    /\ files = [t \in Writers |-> << >>]
    /\ offset = [t \in Writers |-> 0]
    /\ err = [t \in Threads |-> nil]
    /\ failed = [t \in Threads |-> nil]
    /\ callId = [t \in Writers |-> 0]
    /\ hist = << >>
    /\ budget = Budget(MaxWritesN, MaxTicksN, MaxFaultsN, 0, MaxForeign)

\* New: os.Mkdir fails when the directory exists (EEXIST) or for another
\* reason; then createNewLogFile, whose error is returned; then the
\* background syncer is started and the engine handed to the callers.
New(t) ==
    /\ pc[t] = "new"
    /\ \/ /\ logDirExists
          /\ NoFault
          /\ err' = [err EXCEPT ![t] = "EEXIST"]
          /\ pc' = [pc EXCEPT ![t] = "newFailed"]
          /\ UNCHANGED <<fs, logDirExists>>
       \/ /\ ~logDirExists
          /\ Fault
          /\ err' = [err EXCEPT ![t] = "Mkdir"]
          /\ pc' = [pc EXCEPT ![t] = "newFailed"]
          /\ UNCHANGED <<fs, logDirExists>>
       \/ /\ ~logDirExists
          /\ Fault
          /\ logDirExists' = TRUE
          /\ err' = [err EXCEPT ![t] = "OpenFile"]
          /\ pc' = [pc EXCEPT ![t] = "newFailed"]
          /\ UNCHANGED fs
       \/ /\ ~logDirExists
          /\ NoFault
          /\ logDirExists' = TRUE
          /\ createNewLogFile
          /\ pc' = [x \in Threads |-> IF x = Bg THEN "wait" ELSE "idle"]
          /\ UNCHANGED err
    /\ UNCHANGED <<clock, config, lock, locals, failed, callId, hist>>

\* Another program puts an empty file into the log directory.
ForeignCreate ==
    /\ logDirExists
    /\ Spend("foreign")
    /\ \E name \in ForeignNames \ DOMAIN dir :
          /\ dir' = [n \in DOMAIN dir \cup {name} |->
                        IF n = name THEN Len(content) + 1 ELSE dir[n]]
          /\ content' = Append(content, << >>)
          /\ synced' = Append(synced, 0)
          /\ trace' = Append(trace, << >>)
    /\ UNCHANGED <<clock, handles, currentLog, config, logDirExists, lock, pc,
                   locals, err, failed, callId, hist>>

\* One caller: every call returns before the next one starts.
Main == "w1"

Next ==
    \/ Tick
    \/ \E d \in Payloads : WriteCall(Main, d)
    \/ WriteLock(Main)
    \/ GetAllSegments(Main)
    \/ ProcessOldSegments(Main)
    \/ RotateLog(Main)
    \/ Seek(Main)
    \/ WriteOffset(Main)
    \/ WriteLen(Main)
    \/ WriteData(Main)
    \/ WriteChecksum(Main)
    \/ WriteReturn(Main)
    \/ SyncCall(Main)
    \/ Sync(Main)
    \/ CloseCall(Main)
    \/ CloseLock(Main)
    \/ CloseSync(Main)
    \/ CloseReturn(Main)

Spec == Init /\ [][Next]_vars

\* One caller of Write, with filesystem calls that may fail.
NextF ==
    \/ Tick
    \/ \E d \in Payloads : WriteCall(Main, d)
    \/ WriteLock(Main)
    \/ GetAllSegments(Main)
    \/ ProcessOldSegments(Main)
    \/ RotateLog(Main)
    \/ Seek(Main)
    \/ WriteOffset(Main)
    \/ WriteLen(Main)
    \/ WriteData(Main)
    \/ WriteChecksum(Main)
    \/ WriteReturn(Main)

SpecF == InitF /\ [][NextF]_vars

\* Several callers and the background syncer, interleaved step by step.
NextC ==
    \/ Tick
    \/ \E t \in Writers : \E d \in PayloadsC : WriteCall(t, d)
    \/ \E t \in Writers : WriteLock(t)
    \/ \E t \in Writers : GetAllSegments(t)
    \/ \E t \in Writers : ProcessOldSegments(t)
    \/ \E t \in Writers : RotateLog(t)
    \/ \E t \in Writers : Seek(t)
    \/ \E t \in Writers : WriteOffset(t)
    \/ \E t \in Writers : WriteLen(t)
    \/ \E t \in Writers : WriteData(t)
    \/ \E t \in Writers : WriteChecksum(t)
    \/ \E t \in Writers : WriteReturn(t)
    \/ \E t \in Writers : SyncCall(t)
    \/ \E t \in Writers : Sync(t)
    \/ \E t \in Writers : CloseCall(t)
    \/ \E t \in Writers : CloseLock(t)
    \/ \E t \in Writers : CloseSync(t)
    \/ \E t \in Writers : CloseReturn(t)
    \/ BgTick
    \/ BgLock
    \/ BgSync
    \/ BgUnlock

SpecC == InitC /\ [][NextC]_vars

\* Several callers of Write and Close and the background syncer, with
\* failing filesystem calls, scheduled fairly: a goroutine that can run does run, the ticker keeps
\* firing, and a goroutine blocked in Lock gets the mutex when it is
\* released again and again (sync.Mutex hands over to starving waiters).
WriterStep(t) ==
    \/ WriteLock(t)
    \/ GetAllSegments(t)
    \/ ProcessOldSegments(t)
    \/ RotateLog(t)
    \/ Seek(t)
    \/ WriteOffset(t)
    \/ WriteLen(t)
    \/ WriteData(t)
    \/ WriteChecksum(t)
    \/ WriteReturn(t)
    \/ CloseLock(t)
    \/ CloseSync(t)
    \/ CloseReturn(t)

BgStep == BgTick \/ BgLock \/ BgSync \/ BgUnlock

NextL ==
    \/ \E t \in Writers : \E d \in PayloadsC : WriteCall(t, d)
    \/ \E t \in Writers : CloseCall(t)
    \/ \E t \in Writers : WriterStep(t)
    \/ BgStep

Fairness ==
    /\ \A t \in Writers : SF_vars(WriterStep(t))
    /\ SF_vars(BgStep)

SpecL == InitL /\ [][NextL]_vars /\ Fairness

\* One caller that constructs the engine and writes, in a directory that
\* other programs use too; filesystem calls may fail.
NextN ==
    \/ Tick
    \/ New(Main)
    \/ ForeignCreate
    \/ \E d \in PayloadsC : WriteCall(Main, d)
    \/ WriteLock(Main)
    \/ GetAllSegments(Main)
    \/ ProcessOldSegments(Main)
    \/ RotateLog(Main)
    \/ Seek(Main)
    \/ WriteOffset(Main)
    \/ WriteLen(Main)
    \/ WriteData(Main)
    \/ WriteChecksum(Main)
    \/ WriteReturn(Main)

SpecN == InitN /\ [][NextN]_vars

(***************************************************************************)
(* Claims.                                                                 *)
(***************************************************************************)
\* The creation timestamp createNewLogFile put into a file name.
CreatedAt(name) ==
    CHOOSE ts \in 0..(1 + MaxTicks + MaxTicksF + MaxTicksC) : SegmentName(ts) = name

\* C1: retention never deletes the active segment -- in every state the
\* file behind w.currentLog is still an entry of the log directory.
C1_ActiveSegmentOnDisk == \E n \in DOMAIN dir : dir[n] = CurIno

\* C2: whenever a Write deletes segment files, every deleted file was
\* created earlier than every file that remains.
C2_OldestDeletedFirst ==
    [][\A n \in DOMAIN dir \ DOMAIN dir' : \A m \in DOMAIN dir' :
           CreatedAt(n) < CreatedAt(m)]_vars

\* C3: after a successful Write the directory holds at most maxSegments
\* files, and exactly maxSegments once that many segments have been created.
C3_RetentionCount ==
    \A t \in Writers :
        (pc[t] = "return" /\ err[t] = nil) =>
            /\ Cardinality(DOMAIN dir) <= maxSegments
            /\ Len(content) >= maxSegments =>
                   Cardinality(DOMAIN dir) = maxSegments

\* The step of a Write that ends rotateLogIfSizeExceeds and goes on to Seek.
Rotated(t) == pc[t] = "stat" /\ pc'[t] = "seek"
FieldPcs == {"writeOffset", "writeLen", "writeData", "writeChecksum"}

\* C4: a Write that starts with the active segment above segmentSize makes a
\* different, newly created file active before it appends, a Write that
\* starts at or below segmentSize keeps the active segment, and so no record
\* goes to a segment that was above segmentSize when its Write started.
\* Stated for the Writes in which no filesystem call fails.
C4_RotationBeforeAppend ==
    [][\A t \in Writers : (Rotated(t) /\ failed'[t] = nil) =>
          /\ Len(content'[handles'[currentLog']]) <= segmentSize
          /\ IF Len(content[CurIno]) > segmentSize
             THEN /\ handles'[currentLog'] # CurIno
                  /\ handles'[currentLog'] \notin Range(dir)
                  /\ content'[handles'[currentLog']] = << >>
             ELSE currentLog' = currentLog /\ handles' = handles]_vars

\* C4, amended: at or below segmentSize the handle is kept; above it
\* createNewLogFile runs before the append, and if its open succeeds the
\* record goes to the file named after the current second -- a new empty
\* file when the name is free, the existing file of that name otherwise
\* (on a same-second collision the over-threshold segment itself) -- while
\* a failed open is dropped and the handle stays where it was.
C4_RotationAsCoded ==
    [][\A t \in Writers :
          /\ Rotated(t) =>
               IF Len(content[CurIno]) > segmentSize
               THEN \/ /\ failed'[t] = "OpenFile"
                       /\ currentLog' = currentLog /\ handles' = handles
                       /\ dir' = dir /\ content' = content
                    \/ /\ failed'[t] = nil
                       /\ currentLog' # currentLog
                       /\ SegmentName(clock) \in DOMAIN dir'
                       /\ dir'[SegmentName(clock)] = handles'[currentLog']
                       /\ IF SegmentName(clock) \in DOMAIN dir
                          THEN /\ dir' = dir /\ content' = content
                          ELSE /\ handles'[currentLog'] = Len(content) + 1
                               /\ content'[Len(content) + 1] = << >>
               ELSE /\ currentLog' = currentLog /\ handles' = handles
                    /\ dir' = dir /\ content' = content
          /\ (pc[t] \in FieldPcs /\ content' # content) =>
               /\ currentLog' = currentLog /\ handles' = handles
               /\ \A i \in 1..Len(content) :
                      i # CurIno => content'[i] = content[i]]_vars

\* C4 witness: a Write that started above segmentSize has run
\* createNewLogFile in the second the active segment was created in, and is
\* about to append to that same segment through the new handle.
C4_Witness ==
    \E t \in Writers :
        /\ pc[t] = "seek" /\ failed[t] = nil
        /\ currentLog > 1
        /\ handles[currentLog] = handles[currentLog - 1]
        /\ Len(content[CurIno]) > segmentSize

\* The bytes one Write puts into the file.
RecordBytes(h) ==
    offsetBytes(h.offset) \o lenBytes(h.data) \o h.data \o checksumBytes(h.data)

RECURSIVE Concat(_)
Concat(ss) == IF ss = << >> THEN << >> ELSE Head(ss) \o Concat(Tail(ss))

\* No call is in progress and every Write so far returned nil.
AllWritesDone ==
    /\ \A t \in Writers : pc[t] = "idle"
    /\ \A i \in 1..Len(hist) : hist[i].err = nil

\* C5: after N successful Writes whose encoded size stays at or below
\* segmentSize the directory holds exactly one segment file, and it holds
\* the N records in Write order.
C5_OneSegmentBelowThreshold ==
    (AllWritesDone
       /\ Len(Concat([i \in 1..Len(hist) |-> RecordBytes(hist[i])])) <= segmentSize)
    => /\ Cardinality(DOMAIN dir) = 1
       /\ \A n \in DOMAIN dir :
              content[dir[n]] = Concat([i \in 1..Len(hist) |-> RecordBytes(hist[i])])

(***************************************************************************)
(* Recovery, as specified (Record Codec and Recoverer): a segment is read  *)
(* as newline-delimited lines, each line being a 16-byte header -- offset, *)
(* length, checksum -- followed by the payload.                            *)
(***************************************************************************)
delimiter == 10
headerSize == 16

\* The lines of a segment, delimiter removed; a trailing fragment without
\* delimiter is scanned as a line too.
RECURSIVE SplitLines(_, _)
SplitLines(bytes, cur) ==
    IF bytes = << >> THEN (IF cur = << >> THEN << >> ELSE <<cur>>)
    ELSE IF Head(bytes) = delimiter
         THEN <<cur>> \o SplitLines(Tail(bytes), << >>)
    ELSE SplitLines(Tail(bytes), Append(cur, Head(bytes)))

TooShort(line) == Len(line) < headerSize
DecodePayload(line) == SubSeq(line, headerSize + 1, Len(line))
ChecksumMismatch(line) ==
    GetUint(SubSeq(line, 13, 16)) # ChecksumIEEE(DecodePayload(line))

\* The payloads one segment hands to the callback: lines that are too short
\* or fail the checksum are skipped.
RECURSIVE RecoverLines(_)
RecoverLines(lines) ==
    IF lines = << >> THEN << >>
    ELSE IF TooShort(Head(lines)) \/ ChecksumMismatch(Head(lines))
         THEN RecoverLines(Tail(lines))
    ELSE <<DecodePayload(Head(lines))>> \o RecoverLines(Tail(lines))

\* Recover: the segments in ascending order of the timestamp parsed from
\* their names, each scanned from its first byte.
RECURSIVE RecoverSegments(_)
RecoverSegments(infos) ==
    IF infos = << >> THEN << >>
    ELSE RecoverLines(SplitLines(content[dir[Head(infos).Name]], << >>))
         \o RecoverSegments(Tail(infos))

Recover == RecoverSegments(SliceStable(getSegmentInfos(ReadDir(DOMAIN dir))))

\* The payloads of the returned Writes whose segment is still in the
\* directory, in the order the Writes returned.
RECURSIVE SurvivingPayloads(_)
SurvivingPayloads(h) ==
    IF h = << >> THEN << >>
    ELSE (IF Head(h).ino \in Range(dir) THEN <<Head(h).data>> ELSE << >>)
         \o SurvivingPayloads(Tail(h))

\* C6: after successful Writes followed by a Sync, recovery hands the
\* callback exactly the payloads of the records in the surviving segments,
\* each once, in the order they were written.
C6_RecoveryReplay ==
    (AllWritesDone /\ synced[CurIno] = Len(content[CurIno]))
        => Recover = SurvivingPayloads(hist)

\* A Sync, Close or background sync that has just succeeded.
SyncDone(t) ==
    /\ pc[t] \in {"sync", "closeSync", "bgSync"}
    /\ pc'[t] # pc[t]
    /\ err'[t] = nil

\* C7: a Write that rotates leaves every byte of the abandoned segment
\* synced before the new segment is active; hence after a successful Sync
\* or Close no record of a Write that returned nil, in the active segment or
\* in a segment still in the directory, is unsynced.
C7_FlushBeforeRotate ==
    [][/\ \A t \in Writers :
            (Rotated(t) /\ currentLog' # currentLog) =>
                synced'[CurIno] = Len(content[CurIno])
       /\ \A t \in Threads : SyncDone(t) =>
            \A i \in 1..Len(hist) :
                (hist[i].err = nil
                   /\ (hist[i].ino \in Range(dir) \/ hist[i].ino = CurIno))
                => synced'[hist[i].ino] >= hist[i].offset + Len(RecordBytes(hist[i]))]_vars

\* The program points of Write between Lock and Unlock.
InWrite == {"getAllSegments", "processOldSegments", "stat", "seek",
            "writeOffset", "writeLen", "writeData", "writeChecksum", "return"}

\* C8: the first filesystem call that fails in a Write ends it and its
\* error is what Write returns: once a call has failed the Write is at its
\* return with that error, so it appends nothing afterwards.
C8_FirstErrorReturned ==
    \A t \in Writers :
        pc[t] \in InWrite =>
            /\ err[t] = failed[t]
            /\ failed[t] # nil => pc[t] = "return"

\* C9: when an os.Remove of retention fails the Write returns that error:
\* the step goes straight to the return, then the lock is released, and
\* neither changes the handle, rotates, or touches the bytes of a file that
\* is still in the directory.
C9_RemoveFailureAborts ==
    [][\A t \in Writers :
          /\ (pc[t] = "processOldSegments" /\ failed'[t] = "Remove") =>
               /\ pc'[t] = "return" /\ err'[t] = "Remove"
               /\ currentLog' = currentLog /\ handles' = handles
               /\ content' = content
               /\ \A n \in DOMAIN dir' : n \in DOMAIN dir /\ dir'[n] = dir[n]
          /\ (pc[t] = "return" /\ failed[t] = "Remove") =>
               /\ pc'[t] \in {"return", "idle"}
               /\ err[t] = "Remove"
               /\ currentLog' = currentLog /\ handles' = handles
               /\ content' = content /\ dir' = dir
               /\ pc'[t] = "idle" =>
                      /\ Len(hist') = Len(hist) + 1
                      /\ hist'[Len(hist')].err = "Remove"]_vars

\* C9 witness: a Write is returning the error of a failed os.Remove, after
\* an earlier Write put a record into the segment that is still there.
C9_Witness ==
    \E t \in Writers :
        /\ pc[t] = "return" /\ err[t] = "Remove"
        /\ \E n \in DOMAIN dir : content[dir[n]] # << >>

Fields == <<"offset", "len", "data", "checksum">>
FieldIndex(f) == CHOOSE k \in 1..4 : Fields[k] = f

\* C10: for any number of concurrent callers, at most one Write is between
\* its rotation check and its last field write, and in every file the field
\* writes of one record are contiguous and in order.
C10_AppendsSerialized ==
    /\ Cardinality({t \in Writers : pc[t] \in InWrite}) <= 1
    /\ \A i \in 1..Len(trace) : \A j \in 1..Len(trace[i]) :
          IF trace[i][j][2] = "offset"
          THEN \A k \in 1..(j - 1) : trace[i][k][1] # trace[i][j][1]
          ELSE /\ j > 1
               /\ trace[i][j - 1][1] = trace[i][j][1]
               /\ FieldIndex(trace[i][j - 1][2]) + 1 = FieldIndex(trace[i][j][2])

\* C10 witness: one caller has written the first two fields of its record
\* and another caller, whose Write has started, waits for the lock.
C10_Witness ==
    \E t1, t2 \in Writers :
        /\ pc[t1] = "writeData" /\ pc[t2] = "lock"
        /\ Len(trace[CurIno]) >= 2
        /\ trace[CurIno][Len(trace[CurIno])] = <<callId[t1], "len">>

\* C11: New succeeds when the log directory already exists, opening a new
\* active segment in it, and a New that fails at the directory creation
\* fails with an error other than already-exists.
C11_NewOnExistingDir ==
    [][\A t \in Writers : (pc[t] = "new" /\ pc'[t] # "new") =>
          /\ (logDirExists /\ budget' = budget) =>
                /\ pc'[t] = "idle"
                /\ currentLog' \in DOMAIN handles'
                /\ SegmentName(clock) \in DOMAIN dir'
                /\ dir'[SegmentName(clock)] = handles'[currentLog']
          /\ err'[t] # "EEXIST"]_vars

\* C12: the record a successful Write has appended is, in this order, the
\* offset (8 bytes), the payload length (4 bytes), the checksum of the
\* payload (4 bytes), the payload and a newline byte, so the segment grew
\* by exactly 17 + n bytes for a payload of n bytes.
C12_RecordLayout ==
    \A t \in Writers :
        (pc[t] = "return" /\ err[t] = nil) =>
            /\ Len(content[CurIno]) = offset[t] + 17 + Len(data[t])
            /\ SubSeq(content[CurIno], offset[t] + 1, Len(content[CurIno]))
                   = offsetBytes(offset[t]) \o lenBytes(data[t])
                       \o checksumBytes(data[t]) \o data[t] \o <<10>>

\* C13: the offset a Write stores in its record is the number of records
\* appended to the active segment before it -- 0 for the first record of a
\* segment, one more for every later record, whatever the payload sizes.
C13_LogicalOffsets ==
    \A t \in Writers :
        pc[t] = "writeOffset" =>
            offset[t] = Cardinality({j \in 1..Len(trace[CurIno]) :
                                        trace[CurIno][j][2] = "checksum"})

\* The steps that read or use w.currentLog.
UsesHandle(t) ==
    /\ pc[t] \in {"stat", "seek", "writeOffset", "writeLen", "writeData",
                  "writeChecksum", "sync", "closeSync", "bgSync"}
    /\ pc'[t] # pc[t]

\* C14: every step of Write, Sync, Close and the background syncer that
\* uses the active-segment handle is taken by the holder of the engine lock,
\* so no thread syncs while another thread's Write is between its rotation
\* step and its last field write.
C14_HandleUsedUnderLock ==
    [][\A t \in Threads : UsesHandle(t) =>
          /\ lock = t
          /\ \A u \in Writers \ {t} : pc[u] \notin InWrite]_vars

\* C15: under fair scheduling every started Write or Close returns,
\* whatever filesystem call fails in it, and every tick of the background
\* syncer is followed by its sync of the active segment: the lock is
\* released on every return path and Close takes it once.  A caller is
\* again and again outside every call, and the syncer again and again past
\* its sync.
C15_LockProgress ==
    /\ \A t \in Writers : []<>(pc[t] = "idle")
    /\ []<>(pc[Bg] \in {"wait", "bgUnlock"})

\* C15 witness: a Write is returning an error with the lock still held
\* while the other caller and the background syncer wait for the lock.
C15_Witness ==
    \E t, u \in Writers :
        /\ pc[t] = "return" /\ err[t] # nil /\ lock = t
        /\ pc[u] \in {"lock", "closeLock"}
        /\ pc[Bg] = "bgLock"

\* C16: a segment file that a rotation has abandoned is never written
\* again -- no bytes are appended to a file for which an earlier handle was
\* replaced by a rotation.
C16_AbandonedNeverWritten ==
    [][\A i \in 1..Len(content) :
          content'[i] # content[i] =>
              \A h \in 1..(currentLog - 1) : handles[h] # i]_vars

\* C16, amended: bytes are appended only through the handle the latest
\* createNewLogFile opened, and a file is written after a rotation only
\* when every rotation since it was first opened reopened that same file
\* (rotations within the clock second of its name); once a rotation has
\* made a different file active, the file left behind is never written
\* again.
C16_AbandonedAsCoded ==
    [][\A i \in 1..Len(content) :
          content'[i] # content[i] =>
              /\ i = CurIno
              /\ \A h \in 1..currentLog :
                    handles[h] = i =>
                        \A g \in h..currentLog : handles[g] = i]_vars

\* C16 witness: a rotation has reopened the file that was active, and the
\* Write has appended the first field of its record to it through the new
\* handle.
C16_Witness ==
    \E t \in Writers :
        /\ pc[t] = "writeLen"
        /\ currentLog >= 2
        /\ handles[currentLog] = handles[currentLog - 1]
        /\ trace[CurIno][Len(trace[CurIno])] = <<callId[t], "offset">>

\* The entries of a listing that carry the segment prefix.
RECURSIVE SegmentNames(_)
SegmentNames(names) ==
    IF names = << >> THEN << >>
    ELSE (IF HasPrefix(Head(names), filePrefix) THEN <<Head(names)>> ELSE << >>)
         \o SegmentNames(Tail(names))

\* C17: files whose names do not start with the segment prefix are outside
\* retention: a retention pass deletes none of them, and it deletes exactly
\* the segment files it would delete if they were not in the directory --
\* none while fewer than maxSegments segment files exist.
C17_ForeignFilesIgnored ==
    [][\A t \in Writers :
          (pc[t] = "processOldSegments" /\ pc'[t] = "stat") =>
              /\ \A n \in DOMAIN dir \ DOMAIN dir' : HasPrefix(n, filePrefix)
              /\ DOMAIN dir \ DOMAIN dir' =
                    IF Len(SegmentNames(files[t])) < maxSegments THEN {}
                    ELSE Range(deleteOldSegments(SegmentNames(files[t]),
                                                 maxSegments))]_vars

\* C18: between operations the engine holds one open file handle: a Write
\* that rotates releases the handle of the segment it abandons, so the
\* open handles do not grow with the rotations.
C18_OneOpenHandle ==
    (\A t \in Writers : pc[t] = "idle") => Len(handles) <= 1

\* The name a file has in the directory, and the timestamp getSegmentInfos
\* parses from it.
NameOf(ino) == CHOOSE n \in DOMAIN dir : dir[n] = ino
ParsedTimestamp(ino) == getSegmentInfos(<<NameOf(ino)>>)[1].Timestamp

\* C19: of two records still on disk whose Writes returned one after the
\* other, the earlier one is either before the later one in the same
\* segment, or in a segment that sorts strictly before the later one's when
\* segments are ordered ascending by the timestamp parsed from their names.
C19_CrossSegmentOrder ==
    \A i, j \in 1..Len(hist) :
        (/\ i < j
         /\ hist[i].err = nil /\ hist[j].err = nil
         /\ hist[i].ino \in Range(dir) /\ hist[j].ino \in Range(dir))
        => IF hist[i].ino = hist[j].ino
           THEN hist[i].offset < hist[j].offset
           ELSE ParsedTimestamp(hist[i].ino) < ParsedTimestamp(hist[j].ino)

\* C20: when createNewLogFile builds a name that already exists in the
\* directory, the existing file is reopened: its bytes and the directory
\* are unchanged and the new handle is on that file; and every field write
\* only appends to the active file, so the records that follow come after
\* the bytes that were there.
C20_CollisionPreservesData ==
    [][\A t \in Writers :
          /\ (/\ Rotated(t)
              /\ currentLog' # currentLog
              /\ SegmentName(clock) \in DOMAIN dir) =>
                 /\ dir' = dir
                 /\ content' = content
                 /\ handles'[currentLog'] = dir[SegmentName(clock)]
          /\ (pc[t] \in FieldPcs /\ content' # content) =>
                 /\ Len(content') = Len(content)
                 /\ dir' = dir
                 /\ SubSeq(content'[CurIno], 1, Len(content[CurIno]))
                        = content[CurIno]]_vars

\* C20 witness: a Write whose rotation reopened the existing active file has
\* appended its whole record after the record that was already there.
C20_Witness ==
    \E t \in Writers :
        /\ pc[t] = "return" /\ err[t] = nil
        /\ currentLog >= 2
        /\ handles[currentLog] = handles[currentLog - 1]
        /\ offset[t] > segmentSize
        /\ Len(hist) >= 1
        /\ content[CurIno] =
               RecordBytes(hist[Len(hist)])
                   \o RecordBytes([offset |-> offset[t], data |-> data[t]])

====
